---- MODULE Spec2Model ----
(***************************************************************************)
(* A model of the GROMACS .trr trajectory reader (src/trr.py: TRRHeader    *)
(* and TRR) and of the elapsed-time helper (src/timer.py: Timer).          *)
(*                                                                         *)
(* The trajectory file is a sequence of bytes.  Integers of the header are *)
(* decoded from their four big-endian bytes; floating values (time, lambda *)
(* and the x/v/f payload) are carried as their big-endian encodings.       *)
(***************************************************************************)
EXTENDS Integers, Sequences, FiniteSets, TLC

VARIABLES
    file,       \* the bytes of the file opened by TRR.__init__
    layout,     \* how the file was laid out: one record per frame written
    selArg,     \* the selection argument of TRR.__init__
    pc,         \* "scan" (the while loop), "done" (object built), "failed"
    err,        \* the exception that ended the constructor, or "none"
    pos,        \* local pos of the index scan
    size,       \* local size of the index scan
    frames,     \* local frames / self.frames
    headers,    \* self.headers
    tell,       \* position of the stream self.trr
    sizes,      \* self._sizes
    have,       \* self._have
    starts,     \* self._starts
    natoms,     \* self.natoms
    maxidx,     \* self._maxidx
    selection,  \* self.selection
    cache,      \* the attributes _positions, _velocities, _forces
    ret,        \* outcome of the latest accessor call
    lastIO,     \* seeks and reads the latest accessor call did on self.trr
    called,     \* block types whose accessor has been called
    nextId,     \* identity given to the next array an accessor builds
    timer,      \* the Timer list: entries [msg, start] or [msg, start, end]
    idx,        \* Timer.idx, or -1 while the attribute is not set
    depth,      \* number of with-blocks of the Timer still open
    exitErr,    \* outcome of the latest Timer.__exit__
    reprErr,    \* outcome of the latest repr(timer) made outside __exit__
    clock       \* reading of time.time()

trrVars == <<file, layout, selArg, pc, err, pos, size, frames, headers, tell,
             sizes, have, starts, natoms, maxidx, selection, cache, ret,
             lastIO, called, nextId>>
timerVars == <<timer, idx, depth, exitErr, reprErr, clock>>
vars == <<trrVars, timerVars>>

(***************************************************************************)
(* Bounds of the model.                                                    *)
(***************************************************************************)
MaxFrames == 2
MaxEntries == 4

(***************************************************************************)
(* Arithmetic and byte helpers.                                            *)
(***************************************************************************)
Min(a, b) == IF a <= b THEN a ELSE b
Max(a, b) == IF a >= b THEN a ELSE b

\* Python's // : floor division, for either sign of the divisor.
FloorDiv(a, b) == IF b > 0 THEN a \div b ELSE (0 - a) \div (0 - b)

RECURSIVE Rep(_, _)
Rep(s, n) == IF n <= 0 THEN <<>> ELSE s \o Rep(s, n - 1)

RECURSIVE Flatten(_)
Flatten(ss) == IF ss = <<>> THEN <<>> ELSE Head(ss) \o Flatten(Tail(ss))

RECURSIVE SumSeq(_)
SumSeq(s) == IF s = <<>> THEN 0 ELSE Head(s) + SumSeq(Tail(s))

\* struct.pack('>l', n): the four big-endian bytes of a signed 32-bit integer.
Pack32(n) ==
    LET m == IF n >= 0 THEN n ELSE (n + 2147483647) + 1
        top == IF n >= 0 THEN m \div 16777216 ELSE 128 + (m \div 16777216)
    IN  <<top, (m \div 65536) % 256, (m \div 256) % 256, m % 256>>

\* struct.unpack('>l', b): a signed 32-bit big-endian integer.
Unpack32(b) ==
    (IF b[1] >= 128 THEN b[1] - 256 ELSE b[1]) * 16777216
        + b[2] * 65536 + b[3] * 256 + b[4]

\* stream.seek(p); stream.read(n) for p >= 0: at most n bytes, fewer at EOF.
Read(f, p, n) ==
    IF p >= Len(f) THEN <<>> ELSE SubSeq(f, p + 1, Min(p + n, Len(f)))

(***************************************************************************)
(* The files and selections the constructor is given.                      *)
(*                                                                         *)
(* A frame is written as GROMACS writes it: magic 1993, string size 13,    *)
(* the 12-character string "GMX_trn_file" with its length, the 13 integer  *)
(* fields, time and lambda (4 or 8 bytes each), then box, x, v and f.      *)
(* A kind names the atom count, which of box/x/v/f the frame carries and   *)
(* whether the input-record size field is tampered with: "stay" and "back" *)
(* declare a negative size that makes the scan advance by 0 or by -4.      *)
(***************************************************************************)
Kind(n, box, x, v, f, t) ==
    [natoms |-> n, box |-> box, x |-> x, v |-> v, f |-> f, tamper |-> t]

FrameKinds ==
    { Kind(1, TRUE, TRUE, FALSE, FALSE, "none"),
      Kind(2, TRUE, TRUE, TRUE, TRUE, "none"),
      Kind(1, TRUE, FALSE, TRUE, FALSE, "none"),
      Kind(0, TRUE, FALSE, FALSE, FALSE, "none"),
      Kind(1, TRUE, TRUE, FALSE, FALSE, "stay"),
      Kind(1, TRUE, TRUE, FALSE, FALSE, "back"),
      Kind(1, FALSE, TRUE, FALSE, FALSE, "none") }

\* The frames of the files opened with a selection other than the default.
SelKind == Kind(3, TRUE, TRUE, TRUE, TRUE, "none")

Scalar(d) == IF d THEN 8 ELSE 4
BoxSize(d, k) == IF k.box THEN 9 * Scalar(d) ELSE 0
BlockSize(d, k, present) == IF present THEN 3 * Scalar(d) * k.natoms ELSE 0
PayloadSize(d, k) ==
    BoxSize(d, k) + BlockSize(d, k, k.x) + BlockSize(d, k, k.v)
        + BlockSize(d, k, k.f)

\* The input-record size field written into the frame.
IrField(d, k) ==
    LET step == PayloadSize(d, k) + (IF d THEN 164 ELSE 120) - 36
    IN  CASE k.tamper = "stay" -> 0 - step
          [] k.tamper = "back" -> 0 - step - 4
          [] OTHER -> 0

GmxString == <<71, 77, 88, 95, 116, 114, 110, 95, 102, 105, 108, 101>>

FrameBytes(d, k, step) ==
    Pack32(1993) \o Pack32(13) \o Pack32(12) \o GmxString
      \o Pack32(IrField(d, k)) \o Pack32(0) \o Pack32(BoxSize(d, k))
      \o Pack32(0) \o Pack32(0) \o Pack32(0) \o Pack32(0)
      \o Pack32(BlockSize(d, k, k.x)) \o Pack32(BlockSize(d, k, k.v))
      \o Pack32(BlockSize(d, k, k.f))
      \o Pack32(k.natoms) \o Pack32(step) \o Pack32(0)
      \o Rep(<<0, 0, 0, step>>, Scalar(d) \div 2)
      \o Rep(<<0, 0, 0, 1>>, BoxSize(d, k) \div 4)
      \o Rep(<<0, 0, 0, 2>>, BlockSize(d, k, k.x) \div 4)
      \o Rep(<<0, 0, 0, 3>>, BlockSize(d, k, k.v) \div 4)
      \o Rep(<<0, 0, 0, 4>>, BlockSize(d, k, k.f) \div 4)

FrameLen(d, k) == 76 + 2 * Scalar(d) + PayloadSize(d, k)

BuildFile(d, ks) ==
    Flatten([i \in 1..Len(ks) |-> FrameBytes(d, ks[i], i - 1)])

RECURSIVE StartOf(_, _, _)
StartOf(d, ks, i) ==
    IF i <= 1 THEN 0 ELSE StartOf(d, ks, i - 1) + FrameLen(d, ks[i - 1])

BuildLayout(d, ks) ==
    [i \in 1..Len(ks) |->
        [start |-> StartOf(d, ks, i), double |-> d, kind |-> ks[i]]]

SeqsUpTo(S, n) == UNION { [1..m -> S] : m \in 0..n }

\* A selection argument.  kind "int": an integer n; "slice": slice(start,
\* stop) with stop None when hasStop is FALSE; "mask": a boolean ndarray;
\* "array": an integer ndarray; "list": a list or tuple of integers;
\* "boollist": a list of booleans.
Sel(kind, n, start, hasStop, stop, mask, ix) ==
    [kind |-> kind, n |-> n, start |-> start, hasStop |-> hasStop,
     stop |-> stop, mask |-> mask, idx |-> ix]
SelInt(n) == Sel("int", n, 0, FALSE, 0, <<>>, <<>>)
SelSlice(start, hasStop, stop) ==
    Sel("slice", 0, start, hasStop, stop, <<>>, <<>>)
SelMask(m) == Sel("mask", 0, 0, FALSE, 0, m, <<>>)
SelArray(ix) == Sel("array", 0, 0, FALSE, 0, <<>>, ix)
SelList(ix) == Sel("list", 0, 0, FALSE, 0, <<>>, ix)
SelBoolList(m) == Sel("boollist", 0, 0, FALSE, 0, m, <<>>)

\* selection=slice(None), the default of TRR.__init__.
DefaultSelection == SelSlice(0, FALSE, 0)

Selections ==
    { SelInt(0), SelInt(2), SelInt(3),
      SelSlice(0, TRUE, 2), SelSlice(1, FALSE, 0), SelSlice(1, TRUE, 3),
      SelMask(<<TRUE, FALSE, TRUE>>), SelMask(<<TRUE, TRUE, FALSE>>),
      SelMask(<<FALSE, FALSE, FALSE>>),
      SelArray(<<0, 2>>), SelArray(<<1>>), SelArray(<<>>),
      SelList(<<0, 2>>), SelList(<<0, 1>>), SelList(<<2, 1, 0>>),
      SelBoolList(<<TRUE, FALSE, TRUE>>) }

\* The inputs of the constructor: every file of up to MaxFrames frames of one
\* precision with the default selection, and the files of SelKind frames with
\* every selection.
Scenarios ==
    { [double |-> d, kinds |-> ks, sel |-> DefaultSelection] :
        d \in BOOLEAN, ks \in SeqsUpTo(FrameKinds, MaxFrames) }
    \cup
    { [double |-> FALSE, kinds |-> ks, sel |-> s] :
        ks \in SeqsUpTo({SelKind}, MaxFrames) \ {<<>>}, s \in Selections }

(***************************************************************************)
(* TRRHeader.__init__: decode the header of the frame at position p.       *)
(***************************************************************************)
HeaderError(e, t) == [err |-> e, tell |-> t]

\* A mutation of TimeBytes: time and lambda always read as 4-byte values.
TimeBytesSingleOnly(double) == 8

\* stream.read(16) when double, stream.read(8) otherwise.
TimeBytes(double) == IF double THEN 16 ELSE 8

Hsize(double) == IF double THEN 164 ELSE 120

\* A mutation of Precision: the flag defaults to single when the atom count
\* is 0.
PrecisionDefaulting(raw) ==
    IF raw[11] = 0 THEN [err |-> "none", double |-> FALSE]
    ELSE [err |-> "none",
          double |-> FloorDiv(FloorDiv(Max(raw[8], Max(raw[9], raw[10])),
                                       raw[11]), 3) = 8]

\* self.double = (max(raw[-6:-3]) // raw[-3] // 3) == 8, which raises
\* ZeroDivisionError when the atom count raw[-3] is 0.
Precision(raw) ==
    IF raw[11] = 0 THEN [err |-> "ZeroDivisionError", double |-> FALSE]
    ELSE [err |-> "none",
          double |-> FloorDiv(FloorDiv(Max(raw[8], Max(raw[9], raw[10])),
                                       raw[11]), 3) = 8]

\* unpack('>lllllllllllll', header[24:]) for the 76 bytes header.
RawHeader(header) ==
    [i \in 1..13 |-> Unpack32(SubSeq(header, 24 + 4 * i - 3, 24 + 4 * i))]

TRRHeader(f, p) ==
    LET header == Read(f, p, 76)
    IN  IF Len(header) < 76
        THEN HeaderError("struct.error", p + Len(header))
        ELSE
        LET raw == RawHeader(header)
            prec == Precision(raw)
        IN  IF prec.err # "none"
            THEN HeaderError(prec.err, p + 76)
            ELSE
            LET double == prec.double
                tl == Read(f, p + 76, TimeBytes(double))
            IN  IF Len(tl) < TimeBytes(double)
                THEN HeaderError("struct.error", p + 76 + Len(tl))
                ELSE [err |-> "none",
                      tell |-> p + 76 + Len(tl),
                      tag |-> SubSeq(header, 1, 8),
                      rawheader |-> raw,
                      step |-> raw[12],
                      double |-> double,
                      positions |-> raw[8],
                      velocities |-> raw[9],
                      forces |-> raw[10],
                      natoms |-> raw[11],
                      time |-> SubSeq(tl, 1, Len(tl) \div 2),
                      lambd |-> SubSeq(tl, Len(tl) \div 2 + 1, Len(tl)),
                      fsize |-> SumSeq(SubSeq(raw, 1, 10)),
                      bsize |-> Max(raw[8], Max(raw[9], raw[10])),
                      hsize |-> Hsize(double)]

(***************************************************************************)
(* TRR.__init__: the index scan (the while loop) and the rest of the       *)
(* constructor.                                                            *)
(***************************************************************************)
NoArray == [id |-> 0, shape |-> <<0, 0, 3>>, data |-> <<>>]
NoRet == [err |-> "none", arr |-> NoArray]
EmptyCache == [k \in 0..2 |-> [has |-> FALSE, arr |-> NoArray]]

\* The scan is followed for at most ScanCap iterations.
ScanCap == 2 * MaxFrames + 2

\* Python's integers are unbounded.  The model follows the scan while the
\* sums it forms of the 13 header fields (fsize, and the block starts) stay
\* within 32 bits; the sum of the fields' upper 16 bits decides that.
SumsFit(raw) ==
    LET hi(s) == SumSeq([i \in 1..Len(s) |-> s[i] \div 65536])
    IN  /\ hi(SubSeq(raw, 1, 10)) \in -32700..32700
        /\ hi(SubSeq(raw, 8, 9)) \in -32700..32700

Representable(f, p) ==
    Len(Read(f, p, 76)) = 76 => SumsFit(RawHeader(Read(f, p, 76)))

InitTRR(sc) ==
    /\ file = BuildFile(sc.double, sc.kinds)
    /\ layout = BuildLayout(sc.double, sc.kinds)
    /\ selArg = sc.sel
    /\ pc = "scan"
    /\ err = "none"
    /\ pos = 0
    /\ size = Len(file)
    /\ tell = Len(file)
    /\ frames = <<>>
    /\ headers = <<>>
    /\ sizes = <<>>
    /\ have = <<>>
    /\ starts = <<>>
    /\ natoms = 0
    /\ maxidx = 0
    /\ selection = selArg
    /\ cache = EmptyCache
    /\ ret = NoRet
    /\ lastIO = 0
    /\ called = {}
    /\ nextId = 1

\* Timer(): an empty list without the attribute idx.
InitTimer ==
    /\ timer = <<>>
    /\ idx = -1
    /\ depth = 0
    /\ exitErr = "none"
    /\ reprErr = "none"
    /\ clock = 0

Init == (\E sc \in Scenarios : InitTRR(sc)) /\ InitTimer

\* pos += fsize + hsize - 36
Advance(h) == h.fsize + h.hsize - 36

\* One iteration of the while loop.
ScanStep ==
    /\ pc = "scan"
    /\ pos < size
    /\ Len(frames) < ScanCap
    /\ pos >= 0 => Representable(file, pos)
    /\ IF pos < 0
       THEN /\ pc' = "failed"
            /\ err' = "OSError"
            /\ UNCHANGED <<pos, frames, headers, tell>>
       ELSE LET h == TRRHeader(file, pos)
            IN  /\ frames' = Append(frames, pos)
                /\ tell' = h.tell
                /\ IF h.err # "none"
                   THEN /\ pc' = "failed"
                        /\ err' = h.err
                        /\ UNCHANGED <<pos, headers>>
                   ELSE /\ headers' = Append(headers, h)
                        /\ pos' = pos + Advance(h)
                        /\ UNCHANGED <<pc, err>>
    /\ UNCHANGED <<file, layout, selArg, size, sizes, have, starts, natoms,
                   maxidx, selection, cache, ret, lastIO, called, nextId>>
    /\ UNCHANGED timerVars

RECURSIVE MaxOf(_)
MaxOf(s) == IF Len(s) = 1 THEN s[1] ELSE Max(Head(s), MaxOf(Tail(s)))

\* np.where(m)[0][-1] for booleans: the 0-based index of the last TRUE, or -1.
RECURSIVE LastTrue(_)
LastTrue(m) ==
    IF m = <<>> THEN -1
    ELSE IF m[Len(m)] THEN Len(m) - 1 ELSE LastTrue(SubSeq(m, 1, Len(m) - 1))

\* np.where(s)[0][-1] for integers: the index of the last nonzero one, or -1.
LastNonZero(s) == LastTrue([i \in 1..Len(s) |-> s[i] # 0])

\* Lines 137-155: the maximum atom index to read and self.selection.
ResolveSelection(sel, n) ==
    CASE sel.kind = "int" ->
           [err |-> "none", maxidx |-> Min(sel.n, n),
            selection |-> SelSlice(0, TRUE, sel.n)]
      [] sel.kind = "slice" ->
           [err |-> "none",
            maxidx |-> IF sel.hasStop THEN Min(sel.stop, n) ELSE n,
            selection |-> sel]
      [] sel.kind = "mask" ->
           IF LastTrue(sel.mask) < 0
           THEN [err |-> "IndexError", maxidx |-> n, selection |-> sel]
           ELSE [err |-> "none", maxidx |-> LastTrue(sel.mask),
                 selection |-> sel]
      [] sel.kind = "array" ->
           IF sel.idx = <<>>
           THEN [err |-> "ValueError", maxidx |-> n, selection |-> sel]
           ELSE [err |-> "none", maxidx |-> MaxOf(sel.idx) + 1,
                 selection |-> sel]
      [] sel.kind = "list" ->
           IF sel.idx = <<>>
           THEN [err |-> "ValueError", maxidx |-> n, selection |-> sel]
           ELSE IF MaxOf(sel.idx) + 1 > 2
           THEN [err |-> "none", maxidx |-> MaxOf(sel.idx) + 1,
                 selection |-> sel]
           ELSE IF LastNonZero(sel.idx) < 0
           THEN [err |-> "IndexError", maxidx |-> n, selection |-> sel]
           ELSE [err |-> "none", maxidx |-> LastNonZero(sel.idx),
                 selection |-> sel]
      [] OTHER ->
           IF sel.mask = <<>>
           THEN [err |-> "ValueError", maxidx |-> n, selection |-> sel]
           ELSE IF LastTrue(sel.mask) < 0
           THEN [err |-> "IndexError", maxidx |-> n, selection |-> sel]
           ELSE [err |-> "none", maxidx |-> LastTrue(sel.mask),
                 selection |-> sel]

\* self._sizes: one row per block type, one column per frame.
Sizes(hs) ==
    << [i \in 1..Len(hs) |-> hs[i].positions],
       [i \in 1..Len(hs) |-> hs[i].velocities],
       [i \in 1..Len(hs) |-> hs[i].forces] >>

Have(sz) == [k \in 1..3 |-> [i \in 1..Len(sz[k]) |-> sz[k][i] # 0]]

\* A mutation of Starts: the block sizes of frame 0 are used for every frame.
StartsFromFrameZero(fr, hs, sz) ==
    LET base == [i \in 1..Len(fr) |-> fr[i] + hs[1].hsize]
        row1 == [i \in 1..Len(fr) |-> base[i] + sz[1][1]]
        row2 == [i \in 1..Len(fr) |-> row1[i] + sz[2][1]]
    IN  <<base, row1, row2>>

\* self._starts: frames + headers[0].hsize, then rows 1 and 2 += _sizes[0],
\* then row 2 += _sizes[1].
Starts(fr, hs, sz) ==
    LET base == [i \in 1..Len(fr) |-> fr[i] + hs[1].hsize]
        row1 == [i \in 1..Len(fr) |-> base[i] + sz[1][i]]
        row2 == [i \in 1..Len(fr) |-> row1[i] + sz[2][i]]
    IN  <<base, row1, row2>>

\* The constructor after the loop (lines 119-155).
Finish ==
    /\ pc = "scan"
    /\ pos >= size
    /\ IF headers = <<>>
       THEN /\ pc' = "failed"
            /\ err' = "IndexError"
            /\ UNCHANGED <<sizes, have, starts, natoms, maxidx, selection>>
       ELSE LET sz == Sizes(headers)
                r == ResolveSelection(selArg, headers[1].natoms)
            IN  /\ sizes' = sz
                /\ have' = Have(sz)
                /\ starts' = Starts(frames, headers, sz)
                /\ natoms' = headers[1].natoms
                /\ IF r.err # "none"
                   THEN /\ pc' = "failed"
                        /\ err' = r.err
                        /\ maxidx' = headers[1].natoms
                        /\ UNCHANGED selection
                   ELSE /\ pc' = "done"
                        /\ maxidx' = r.maxidx
                        /\ selection' = r.selection
                        /\ UNCHANGED err
    /\ UNCHANGED <<file, layout, selArg, pos, size, frames, headers, tell,
                   cache, ret, lastIO, called, nextId>>
    /\ UNCHANGED timerVars

(***************************************************************************)
(* TRR._read and the accessors positions, velocities, forces.              *)
(*                                                                         *)
(* An array is its shape and, per frame and per atom, the 12 bytes of the  *)
(* three '>f4' values read for that atom; id tells one array object from   *)
(* another.  A read that meets the end of the file leaves the stream at    *)
(* the end of the file.                                                    *)
(***************************************************************************)
\* self._starts[k, self._have[k]]
RECURSIVE Pick(_, _)
Pick(st, hv) ==
    IF st = <<>> THEN <<>>
    ELSE (IF Head(hv) THEN <<Head(st)>> ELSE <<>>) \o Pick(Tail(st), Tail(hv))

\* Number of '>f4' values np.fromfile returns at position p for count wanted.
Got(p, count) ==
    Min(count, IF p >= Len(file) THEN 0 ELSE (Len(file) - p) \div 4)

\* The loop of _read over the block starts ps; acc carries the outcome so far.
RECURSIVE ReadFrames(_, _)
ReadFrames(ps, acc) ==
    IF ps = <<>> \/ acc.err # "none" THEN acc
    ELSE
    LET p == Head(ps)
    IN  IF p < 0
        THEN [acc EXCEPT !.err = "OSError", !.io = @ + 1]
        ELSE
        LET got == Got(p, 3 * maxidx)
            bytes == SubSeq(file, p + 1, p + 4 * got)
            r == got \div 3
            rows == [j \in 1..r |-> SubSeq(bytes, 12 * j - 11, 12 * j)]
            done == [acc EXCEPT !.io = @ + 2,
                                !.tell = IF got = 3 * maxidx THEN p + 4 * got
                                         ELSE Max(p, Len(file))]
        IN  IF got % 3 # 0 \/ (r # maxidx /\ r # 1)
            THEN [done EXCEPT !.err = "ValueError"]
            ELSE ReadFrames(Tail(ps),
                     [done EXCEPT !.X = Append(@,
                         [j \in 1..maxidx |-> rows[IF r = 1 THEN 1 ELSE j]])])

\* A slice bound on an axis of length n.
SliceBound(v, n) == IF v < 0 THEN Max(v + n, 0) ELSE Min(v, n)

RECURSIVE TrueIndices(_, _)
TrueIndices(m, i) ==
    IF i > Len(m) THEN <<>>
    ELSE (IF m[i] THEN <<i - 1>> ELSE <<>>) \o TrueIndices(m, i + 1)

\* The 0-based atoms X[:, sel] takes from an atom axis of length n.
SelIndex(sel, n) ==
    CASE sel.kind \in {"slice", "int"} ->
           LET lo == SliceBound(sel.start, n)
               hi == IF sel.hasStop THEN SliceBound(sel.stop, n) ELSE n
           IN  [err |-> "none", ix |-> [j \in 1..(hi - lo) |-> lo + j - 1]]
      [] sel.kind \in {"mask", "boollist"} ->
           IF Len(sel.mask) # n
           THEN [err |-> "IndexError", ix |-> <<>>]
           ELSE [err |-> "none", ix |-> TrueIndices(sel.mask, 1)]
      [] OTHER ->
           IF \E j \in 1..Len(sel.idx) : sel.idx[j] >= n \/ sel.idx[j] < 0 - n
           THEN [err |-> "IndexError", ix |-> <<>>]
           ELSE [err |-> "none",
                 ix |-> [j \in 1..Len(sel.idx) |->
                            IF sel.idx[j] < 0 THEN sel.idx[j] + n
                            ELSE sel.idx[j]]]

_read(k) ==
    LET start == [err |-> "none", X |-> <<>>, io |-> 0, tell |-> tell,
                  natomsSel |-> 0]
    IN  IF maxidx < 0 THEN [start EXCEPT !.err = "ValueError"]
        ELSE
        LET a == ReadFrames(Pick(starts[k + 1], have[k + 1]), start)
            s == SelIndex(selection, maxidx)
        IN  IF a.err # "none" THEN a
            ELSE IF s.err # "none" THEN [a EXCEPT !.err = s.err]
            ELSE [a EXCEPT
                    !.X = [i \in 1..Len(a.X) |->
                              [j \in 1..Len(s.ix) |-> a.X[i][s.ix[j] + 1]]],
                    !.natomsSel = Len(s.ix)]

\* A mutation of Hasattr: the stored array is never found.
HasattrNever(k) == FALSE

\* hasattr(self, '_positions'), '_velocities' or '_forces'.
Hasattr(k) == cache[k].has

\* The property for block type k: 0 positions, 1 velocities, 2 forces.
Accessor(k) ==
    /\ pc = "done"
    /\ called' = called \cup {k}
    /\ IF Hasattr(k)
       THEN /\ ret' = [err |-> "none", arr |-> cache[k].arr]
            /\ lastIO' = 0
            /\ UNCHANGED <<cache, nextId, tell>>
       ELSE LET r == _read(k)
                arr == [id |-> nextId,
                        shape |-> <<Len(r.X), r.natomsSel, 3>>,
                        data |-> r.X]
            IN  /\ lastIO' = r.io
                /\ tell' = r.tell
                /\ IF r.err = "none"
                   THEN /\ cache' = [cache EXCEPT ![k] =
                                        [has |-> TRUE, arr |-> arr]]
                        /\ ret' = [err |-> "none", arr |-> arr]
                        /\ nextId' = nextId + 1
                   ELSE /\ ret' = [err |-> r.err, arr |-> NoArray]
                        /\ UNCHANGED <<cache, nextId>>
    /\ UNCHANGED <<file, layout, selArg, pc, err, pos, size, frames, headers,
                   sizes, have, starts, natoms, maxidx, selection>>
    /\ UNCHANGED timerVars

positions == Accessor(0)
velocities == Accessor(1)
forces == Accessor(2)

Next == ScanStep \/ Finish \/ positions \/ velocities \/ forces

Spec == Init /\ [][Next]_vars

(***************************************************************************)
(* Timer (src/timer.py).  An entry of the list is [msg, start] while it is *)
(* open (n = 2) and [msg, start, end] once closed (n = 3).  The statement  *)
(* "with timer(msg):" is __call__ followed by __enter__; "with timer:" is  *)
(* __enter__ alone.  The decorator form runs the function inside           *)
(* "with self(msg=msg):", with a message made from the function's name.    *)
(* The clock advances each time time.time() is read.                       *)
(***************************************************************************)
Msgs == {"a", "b"}

\* timer(msg): __call__ appends [msg, time.time()] and returns the timer.
TimerCall(msg) ==
    /\ Len(timer) < MaxEntries
    /\ timer' = Append(timer, [msg |-> msg, s |-> clock, e |-> 0, n |-> 2])
    /\ clock' = clock + 1
    /\ UNCHANGED <<idx, depth, exitErr, reprErr>>
    /\ UNCHANGED trrVars

\* __enter__ at the start of a with-block: the timer itself is untouched.
TimerEnter ==
    /\ depth < MaxEntries
    /\ depth' = depth + 1
    /\ UNCHANGED <<timer, idx, exitErr, reprErr, clock>>
    /\ UNCHANGED trrVars

\* The last entry of t that is still open, or 0.
RECURSIVE LastOpen(_, _)
LastOpen(t, i) ==
    IF i = 0 THEN 0 ELSE IF t[i].n = 2 THEN i ELSE LastOpen(t, i - 1)

\* The loop of __exit__: the end time goes to the last open entry.
CloseLast(t, now) ==
    IF LastOpen(t, Len(t)) = 0 THEN t
    ELSE [t EXCEPT ![LastOpen(t, Len(t))] = [@ EXCEPT !.e = now, !.n = 3]]

\* __repr__ unpacks lbl, s, e from every entry of self[self.idx:].
ReprFails(t, from) == \E j \in (from + 1)..Len(t) : t[j].n # 3

\* __repr__ on the list t with attribute idx = i (-1: not set): idx becomes
\* 0 when it was not set, and len(self) unless the unpacking raises.
Repr(t, i) ==
    LET from == IF i = -1 THEN 0 ELSE i
    IN  IF ReprFails(t, from) THEN [err |-> "ValueError", idx |-> from]
        ELSE [err |-> "none", idx |-> Len(t)]

\* repr(timer), str(timer) or print(timer) made by the caller.
TimerRepr ==
    /\ reprErr' = Repr(timer, idx).err
    /\ idx' = Repr(timer, idx).idx
    /\ UNCHANGED <<timer, depth, exitErr, clock>>
    /\ UNCHANGED trrVars

\* __exit__ at the end of a with-block, with the print(self) it ends on.
\* time.time() is read only when an open entry is found.
TimerExit ==
    /\ depth > 0
    /\ timer' = CloseLast(timer, clock)
    /\ exitErr' = Repr(CloseLast(timer, clock), idx).err
    /\ idx' = Repr(CloseLast(timer, clock), idx).idx
    /\ clock' = IF LastOpen(timer, Len(timer)) = 0 THEN clock ELSE clock + 1
    /\ depth' = depth - 1
    /\ UNCHANGED reprErr
    /\ UNCHANGED trrVars

TimerInit ==
    /\ InitTRR([double |-> FALSE, kinds |-> <<>>, sel |-> DefaultSelection])
    /\ InitTimer

TimerNext ==
    \/ \E msg \in Msgs : TimerCall(msg)
    \/ TimerEnter
    \/ TimerRepr
    \/ TimerExit

TimerSpec == TimerInit /\ [][TimerNext]_vars

\* The number of entries of the Timer list that are still open.
NumOpen(t) == Cardinality({j \in 1..Len(t) : t[j].n = 2})

(***************************************************************************)
(* What the file really holds, for the properties below.                   *)
(***************************************************************************)
\* The byte at which each frame written into the file starts.
TrueStarts == [i \in 1..Len(layout) |-> layout[i].start]

\* Every frame has atoms, at least one of x, v, f, and sizes as written.
WellFormed ==
    /\ Len(layout) >= 1
    /\ \A i \in 1..Len(layout) :
          /\ layout[i].kind.tamper = "none"
          /\ layout[i].kind.natoms >= 1
          /\ layout[i].kind.x \/ layout[i].kind.v \/ layout[i].kind.f

IsPrefix(a, b) == Len(a) <= Len(b) /\ \A i \in 1..Len(a) : a[i] = b[i]

\* The latest header the scan appended.
LastHeader(hs) == hs[Len(hs)]

\* ScanStep decoded a header and went on.
Decoded == ScanStep /\ Len(headers') = Len(headers) + 1

\* The 76-byte prefix at p can be read and its atom count is 0.
ZeroAtomsAt(p) ==
    /\ p >= 0
    /\ Len(Read(file, p, 76)) = 76
    /\ Unpack32(SubSeq(file, p + 65, p + 68)) = 0

(***************************************************************************)
(* C1.  For a file of F >= 1 well-formed frames of one precision the index *)
(* scan records exactly F offsets, the k-th being the byte at which the    *)
(* k-th frame really starts: the offsets recorded so far are always the    *)
(* first true frame starts, and all of them once the scan is over.         *)
(***************************************************************************)
C1_OffsetsAreFrameStarts ==
    WellFormed =>
        /\ IsPrefix(frames, TrueStarts)
        /\ (pos >= size => frames = TrueStarts)

(***************************************************************************)
(* C2 as stated.  Decoding a frame header consumes exactly header_size     *)
(* bytes of the stream: 120 when single and 164 when double precision.     *)
(***************************************************************************)
C2_ConsumesHeaderSize ==
    [][Decoded => tell' - pos = LastHeader(headers').hsize]_vars

(***************************************************************************)
(* C2 amended.  Decoding a frame header consumes the 76-byte prefix and    *)
(* the time and lambda fields: 84 bytes when the frame is detected as      *)
(* single precision (header_size 120) and 92 bytes when it is detected as  *)
(* double precision (header_size 164).                                     *)
(***************************************************************************)
C2_ConsumesPrefixAndTimes ==
    [][Decoded =>
        /\ LastHeader(headers').double =>
              (tell' - pos = 92 /\ LastHeader(headers').hsize = 164)
        /\ ~LastHeader(headers').double =>
              (tell' - pos = 84 /\ LastHeader(headers').hsize = 120)]_vars

\* A double-precision header has been decoded and the stream is 92 bytes on.
C2_Witness ==
    /\ headers # <<>>
    /\ Len(frames) = Len(headers)
    /\ LastHeader(headers).double
    /\ layout # <<>> /\ layout[1].double
    /\ tell = frames[Len(frames)] + 92

(***************************************************************************)
(* C3.  In every state of the index scan and in every constructed          *)
(* Trajectory the recorded frame offsets are strictly increasing, for any  *)
(* values of the header fields.                                            *)
(***************************************************************************)
C3_OffsetsStrictlyIncreasing ==
    \A i \in 1..(Len(frames) - 1) : frames[i] < frames[i + 1]

(***************************************************************************)
(* C4.  Opening a file of zero bytes constructs a Trajectory with an empty *)
(* frame list without raising, and each accessor returns an array of       *)
(* length zero on the frame axis.                                          *)
(***************************************************************************)
C4_EmptyFileOpens ==
    size = 0 =>
        /\ pc # "failed"
        /\ err = "none"
        /\ (called # {} => ret.err = "none" /\ ret.arr.shape[1] = 0)

(***************************************************************************)
(* C5 as stated.  A header that declares an atom count of 0 makes header   *)
(* decoding fail with an IntegrityError, and the construction fails with   *)
(* that error.                                                             *)
(***************************************************************************)
C5_ZeroAtomsIntegrityError ==
    [][(ScanStep /\ ZeroAtomsAt(pos)) =>
          (pc' = "failed" /\ err' = "IntegrityError")]_vars

(***************************************************************************)
(* C5 amended.  A header that declares an atom count of 0 makes header     *)
(* decoding fail with a ZeroDivisionError: no precision flag is defaulted, *)
(* no header is returned, the construction fails with that error, and no   *)
(* constructed Trajectory holds a header with an atom count of 0.          *)
(***************************************************************************)
C5_ZeroAtomsFailsConstruction ==
    /\ [][(ScanStep /\ ZeroAtomsAt(pos)) =>
             /\ pc' = "failed"
             /\ err' = "ZeroDivisionError"
             /\ headers' = headers]_vars
    /\ [](pc = "done" => \A i \in 1..Len(headers) : headers[i].natoms # 0)
    /\ [][pc = "failed" => pc' = "failed"]_vars

\* The scan failed on the second frame, whose header declares 0 atoms.
C5_Witness ==
    /\ pc = "failed"
    /\ err = "ZeroDivisionError"
    /\ Len(frames) = 2
    /\ Len(headers) = 1
    /\ ZeroAtomsAt(frames[2])

(***************************************************************************)
(* C6 as stated.  For each block type the file is scanned at most once:    *)
(* every call of an accessor after the first returns the stored array and  *)
(* performs no seek or read on the stream.                                 *)
(***************************************************************************)
C6_ScannedAtMostOnce ==
    [][\A k \in 0..2 :
          (Accessor(k) /\ k \in called) =>
              /\ lastIO' = 0
              /\ cache[k].has
              /\ ret' = [err |-> "none", arr |-> cache[k].arr]]_vars

(***************************************************************************)
(* C6 amended.  For each block type, a call that returns an array stores   *)
(* it, and every later call of the same accessor returns that same stored  *)
(* array and performs no seek or read on the stream; a call that raises    *)
(* stores nothing, so the next call of that accessor scans the file again. *)
(* A call for one block type never populates or changes the cache of       *)
(* another, and an array is only ever stored by a call of its accessor.    *)
(***************************************************************************)
C6_MemoizedOnceReturned ==
    /\ [][\A k \in 0..2 :
             Accessor(k) =>
                 /\ cache[k].has =>
                       /\ ret' = [err |-> "none", arr |-> cache[k].arr]
                       /\ lastIO' = 0
                       /\ tell' = tell
                       /\ cache' = cache
                 /\ (~cache[k].has /\ ret'.err = "none") =>
                       /\ cache'[k] = [has |-> TRUE, arr |-> ret'.arr]
                       /\ \A j \in 0..2 : cache[j].has =>
                             cache[j].arr.id # ret'.arr.id
                 /\ (~cache[k].has /\ ret'.err # "none") => cache' = cache
                 /\ \A j \in 0..2 \ {k} : cache'[j] = cache[j]]_vars
    /\ [](\A k \in 0..2 : cache[k].has => k \in called)

\* positions was read from the file by one call and returned again, without
\* a seek or read, by a later one.
C6_Witness ==
    /\ cache[0].has
    /\ cache[0].arr.shape[1] >= 1
    /\ ret = [err |-> "none", arr |-> cache[0].arr]
    /\ lastIO = 0

(***************************************************************************)
(* C7.  For every supported selection form whose indices lie within the    *)
(* atom count, the array a block accessor returns has an atom-axis length  *)
(* equal to the number of atoms the selection names.                       *)
(***************************************************************************)
\* The selection names only atoms below n.
InBounds(sel, n) ==
    CASE sel.kind = "int" -> sel.n >= 0 /\ sel.n <= n
      [] sel.kind = "slice" ->
           /\ sel.start >= 0 /\ sel.start <= n
           /\ sel.hasStop => (sel.stop >= 0 /\ sel.stop <= n)
      [] sel.kind \in {"mask", "boollist"} ->
           Len(sel.mask) = n /\ \E i \in 1..n : sel.mask[i]
      [] OTHER ->
           /\ sel.idx # <<>>
           /\ \A i \in 1..Len(sel.idx) : sel.idx[i] >= 0 /\ sel.idx[i] < n

\* The number of atoms the selection names among n atoms.
Named(sel, n) ==
    CASE sel.kind = "int" -> sel.n
      [] sel.kind = "slice" ->
           Max((IF sel.hasStop THEN sel.stop ELSE n) - sel.start, 0)
      [] sel.kind \in {"mask", "boollist"} ->
           Cardinality({i \in 1..Len(sel.mask) : sel.mask[i]})
      [] OTHER -> Len(sel.idx)

\* Every frame of the file is a boxed single-precision frame of SelKind.
UniformFile ==
    /\ layout # <<>>
    /\ \A i \in 1..Len(layout) : layout[i].kind = SelKind /\ ~layout[i].double

C7_SelectionCardinality ==
    (UniformFile /\ InBounds(selArg, SelKind.natoms)) =>
        /\ pc # "failed"
        /\ called # {} =>
              /\ ret.err = "none"
              /\ ret.arr.shape[2] = Named(selArg, SelKind.natoms)

(***************************************************************************)
(* C8 as stated.  For every frame i the block starts are: positions =      *)
(* offset(i) + header_size of frame 0; velocities = that + the positions   *)
(* size declared by frame 0; forces = velocities start + the velocities    *)
(* size declared by frame 0.                                               *)
(***************************************************************************)
C8_StartsFromFrameZeroSizes ==
    pc = "done" =>
        \A i \in 1..Len(frames) :
            /\ starts[1][i] = frames[i] + headers[1].hsize
            /\ starts[2][i] = starts[1][i] + headers[1].positions
            /\ starts[3][i] = starts[2][i] + headers[1].velocities

(***************************************************************************)
(* C8 amended.  For every frame i the block starts are: positions =        *)
(* offset(i) + header_size of frame 0; velocities = that + the positions   *)
(* size declared by frame i itself; forces = velocities start + the        *)
(* velocities size declared by frame i itself.  Of frame 0 only the        *)
(* header_size enters the arithmetic of the other frames.                  *)
(***************************************************************************)
C8_StartsFromOwnSizes ==
    pc = "done" =>
        /\ Len(starts) = 3
        /\ \A k \in 1..3 : Len(starts[k]) = Len(frames)
        /\ \A i \in 1..Len(frames) :
              /\ starts[1][i] = frames[i] + headers[1].hsize
              /\ starts[2][i] = starts[1][i] + headers[i].positions
              /\ starts[3][i] = starts[2][i] + headers[i].velocities

\* A constructed Trajectory whose second frame declares other block sizes
\* than frame 0.
C8_Witness ==
    /\ pc = "done"
    /\ Len(frames) >= 2
    /\ headers[2].positions # headers[1].positions
    /\ headers[2].velocities # headers[1].velocities
    /\ starts[3][2] = frames[2] + headers[1].hsize + headers[2].positions
                        + headers[2].velocities

(***************************************************************************)
(* C9.  A header whose declared sizes make the scan position not advance   *)
(* ends the scan with an IntegrityError rather than letting it repeat.     *)
(***************************************************************************)
C9_NoAdvanceEndsScan ==
    [][(Decoded /\ Advance(LastHeader(headers')) <= 0) =>
          (pc' = "failed" /\ err' = "IntegrityError")]_vars

(***************************************************************************)
(* C10.  For any sequence of timed contexts opened on one Timer, nested    *)
(* ones included, the report made when a context exits formats only        *)
(* entries that hold a start and an end time, so exiting never fails:      *)
(* whenever every open entry belongs to a with-block that is still open,   *)
(* the exit of a with-block ends without an error.                         *)
(***************************************************************************)
C10_ExitNeverFails ==
    [][(depth' = depth - 1 /\ NumOpen(timer) = depth) =>
          exitErr' = "none"]_vars

====
